---- MODULE Spec2Model ----
(***************************************************************************)
(* twitch-recorder (src/app.py): the Recorder class (one supervision       *)
(* thread per channel driving one streamlink capture process at a time,    *)
(* with a size monitor per process), the monitor_channels thread that      *)
(* reconciles the recorders with the channel list, and the add / pause /   *)
(* resume / remove actions of the index route.                             *)
(*                                                                         *)
(* Time is a clock of whole seconds (now); time.sleep(n) returns once at   *)
(* least n seconds have passed.  A lock-protected section that blocks on   *)
(* nothing is one atomic step; unlocked reads and writes of the manager    *)
(* thread are separate steps.                                              *)
(***************************************************************************)
EXTENDS Integers, Sequences, FiniteSets, TLC

\* ---- bounds of the model
MaxRec == 3          \* Recorder objects ever constructed
MaxProcs == 2        \* capture processes and size monitors held at once
MaxThreads == 2      \* manager threads a Recorder can hold at once
MaxCalls == 2        \* start() calls counted per Recorder (saturating)
MaxClock == 200      \* last clock value under Spec and SpecRec
MaxTime == 205       \* last clock value under SpecPolicy
MaxChannels == 7     \* channels in the copied list under SpecProbe
MaxRemoves == 1      \* remove requests under SpecLocks
ShortStep == 20      \* the two clock steps of SpecPolicy
LongStep == 165

\* ---- constants of the program
MIN_DURATION == 20       \* app.py:124  duration < 20
TOLERANCE == 180         \* app.py:129  > 180
CRASH_DELAY == 5         \* app.py:134  time.sleep(5)
SPLIT_DELAY == 1         \* app.py:139  time.sleep(1)
CHECK_INTERVAL == 60     \* app.py:20
MAX_WORKERS == 5         \* app.py:193  max_workers=5
None == -1               \* Python's None (no recorder, no process, no time)

Names == {"a", "b"}
RIds == 1..MaxRec
PIds == 1..MaxProcs
Slots == 1..MaxThreads

VARIABLES
  channels,          \* the list of channel dicts: name, is_recording, online
  recorders,         \* the dict name -> Recorder (None: no entry)
  rec,               \* the Recorder objects' fields
  thr,               \* the _recording_manager threads of each Recorder
  procs,             \* the streamlink capture processes and their size monitors
  now,               \* the clock, in seconds
  mon,               \* the monitor_channels thread
  data_lock,         \* TRUE while data_lock is held across steps
  failed,            \* history: the channel's recorder stopped on tolerance
  decision,          \* history: what the last monitor cycle decided per channel
  redundant_starts,  \* history: start() calls of this run that returned at line 84
  idle_stops,        \* history: stop() calls since the last run that returned at line 164
  exited,            \* TRUE once sys.exit(0) of signal_handler has ended the program
  pool,              \* the ThreadPoolExecutor of line 193 and its futures
  lock,              \* the holder of each Recorder's self.lock
  call,              \* the start() or stop() call a thread is making
  web,               \* the request thread inside pause or remove
  sig                \* the main thread inside signal_handler

vars == <<channels, recorders, rec, thr, procs, now, mon, data_lock,
          failed, decision, redundant_starts, idle_stops, exited, pool,
          lock, call, web, sig>>

Locks == <<lock, call, web, sig>>
Callers == {"mon", "web", "sig"}

\* ---- helpers
NoCall == [op |-> "none", r |-> None]
NoLocks ==
  /\ lock = [r \in RIds |-> "none"]
  /\ call = [c \in Callers |-> NoCall]
  /\ web = [pc |-> "idle", name |-> "", removes |-> 0]
  /\ sig = [pc |-> "idle", todo |-> {}]
\* A thread's split and a process's split are history: the process was
\* terminated by its size monitor (line 154); the thread keeps it from the
\* return of wait() while the exit counts as a long run.  A process's args
\* are the arguments its size monitor was started with (line 107).
NoPath == <<>>
NoThread == [pc |-> "none", error_start_time |-> None,
             process_start_time |-> None, wake |-> None, proc |-> None,
             split |-> FALSE]
NoRecorder == [created |-> FALSE, channel_name |-> "", process |-> None,
               output_path |-> NoPath, is_recording |-> FALSE,
               stop_requested |-> FALSE, artifact |-> NoPath]
NoPool == [item |-> <<>>, calls |-> <<>>, workers |-> 0]
NoArgs == [current_process |-> None, path |-> NoPath]
NoProcess == [state |-> "unused", owner |-> None, path |-> NoPath,
              terminated |-> FALSE, watcher |-> "none", args |-> NoArgs,
              split |-> FALSE]

\* A Popen object is dropped once the process has exited, its size monitor
\* has returned and neither self.process nor a waiting manager refers to it.
Reap(pr, rc, th) ==
  [p \in DOMAIN pr |->
     IF /\ pr[p].state = "exited"
        /\ pr[p].watcher = "done"
        /\ \A r \in DOMAIN rc : rc[r].process # p
        /\ \A r \in DOMAIN th : \A k \in DOMAIN th[r] : th[r][k].proc # p
     THEN NoProcess ELSE pr[p]]

Min(S) == CHOOSE x \in S : \A y \in S : x <= y

\* Recorder.__init__
Recorder(channel_name) ==
  [created |-> TRUE, channel_name |-> channel_name, process |-> None,
   output_path |-> NoPath, is_recording |-> FALSE, stop_requested |-> FALSE,
   artifact |-> NoPath]

\* generate_filename: name, timestamp to the second, extension
generate_filename(channel_name, t) == <<channel_name, t>>

LiveThreads(r) == {k \in Slots : thr[r][k].pc # "none"}
FreeSlots(r) == Slots \ LiveThreads(r)
AliveProcs(r) == {p \in PIds : procs[p].state = "alive" /\ procs[p].owner = r}
UnusedProcs == {p \in PIds : procs[p].state = "unused"}

\* Popen.terminate(): a signal to a process that is still running
terminate(p) ==
  [procs EXCEPT ![p].terminated = @ \/ procs[p].state = "alive"]

\* ---- Recorder.start
start_unguarded(r) ==
  /\ rec' = [rec EXCEPT ![r].stop_requested = FALSE, ![r].is_recording = TRUE]
  /\ thr' = IF FreeSlots(r) = {} THEN thr
            ELSE [thr EXCEPT ![r][Min(FreeSlots(r))] =
                        [NoThread EXCEPT !.pc = "test"]]
  /\ idle_stops' = [idle_stops EXCEPT ![r] = 0]
  /\ UNCHANGED <<procs, redundant_starts>>

start(r) ==
  IF rec[r].is_recording
  THEN /\ redundant_starts' =
            [redundant_starts EXCEPT ![r] = IF @ < MaxCalls THEN @ + 1 ELSE @]
       /\ UNCHANGED <<rec, thr, procs, idle_stops>>
  ELSE /\ rec' = [rec EXCEPT ![r].stop_requested = FALSE,
                             ![r].is_recording = TRUE]
       /\ thr' = [thr EXCEPT ![r][Min(FreeSlots(r))] =
                        [NoThread EXCEPT !.pc = "test"]]
       /\ idle_stops' = [idle_stops EXCEPT ![r] = 0]
       /\ UNCHANGED <<procs, redundant_starts>>

\* ---- Recorder.stop
stop_unguarded(r) ==
  /\ rec' = [rec EXCEPT ![r].stop_requested = TRUE]
  /\ procs' = IF rec[r].process # None
              THEN terminate(rec[r].process) ELSE procs
  /\ idle_stops' = IF rec[r].is_recording THEN idle_stops
                   ELSE [idle_stops EXCEPT ![r] =
                           IF @ < MaxCalls THEN @ + 1 ELSE @]
  /\ UNCHANGED <<thr, redundant_starts>>

stop(r) ==
  IF ~rec[r].is_recording
  THEN /\ idle_stops' =
            [idle_stops EXCEPT ![r] = IF @ < MaxCalls THEN @ + 1 ELSE @]
       /\ UNCHANGED <<rec, thr, procs, redundant_starts>>
  ELSE /\ rec' = [rec EXCEPT ![r].stop_requested = TRUE]
       /\ procs' = IF rec[r].process # None
                   THEN terminate(rec[r].process) ELSE procs
       /\ UNCHANGED <<thr, redundant_starts, idle_stops>>

\* ---- Recorder._recording_manager, thread k of Recorder r
Others == <<channels, recorders, mon, data_lock, decision, exited, pool,
            Locks>>

\* line 95: while not self.stop_requested
LoopTest(r, k) ==
  /\ thr[r][k].pc = "test"
  /\ thr' = [thr EXCEPT ![r][k].pc =
                 IF rec[r].stop_requested THEN "finish" ELSE "spawn"]
  /\ UNCHANGED <<rec, procs, now, failed, redundant_starts, idle_stops, Others>>

\* lines 113-120: the finally block, then the test of stop_requested
after_try(r) == IF rec[r].stop_requested THEN "finish" ELSE "policy"

\* lines 96-110: new output path, Popen, size monitor started, wait() entered
Spawn(r, k) ==
  /\ thr[r][k].pc = "spawn"
  /\ UnusedProcs # {}
  /\ LET p == Min(UnusedProcs)
         path == generate_filename(rec[r].channel_name, now)
     IN /\ rec' = [rec EXCEPT ![r].output_path = path, ![r].process = p,
                              ![r].artifact = path]
        /\ procs' = [procs EXCEPT ![p] =
                       [state |-> "alive", owner |-> r, path |-> path,
                        terminated |-> FALSE, watcher |-> "watching",
                        args |-> [current_process |-> rec'[r].process,
                                  path |-> rec'[r].output_path],
                        split |-> FALSE]]
        /\ thr' = [thr EXCEPT ![r][k].pc = "wait",
                              ![r][k].process_start_time = now,
                              ![r][k].proc = p]
  /\ UNCHANGED <<now, failed, redundant_starts, idle_stops, Others>>

\* lines 96-103, 111-120: open() or Popen raises, no process exists
SpawnFail(r, k) ==
  /\ thr[r][k].pc = "spawn"
  /\ rec' = [rec EXCEPT
               ![r].output_path = generate_filename(rec[r].channel_name, now),
               ![r].process = None]
  /\ thr' = [thr EXCEPT ![r][k].pc = after_try(r),
                        ![r][k].process_start_time = now,
                        ![r][k].split = FALSE]
  /\ UNCHANGED <<procs, now, failed, redundant_starts, idle_stops, Others>>

\* line 110: self.process.wait() returns once the process has exited
wait_returns_early(p) == TRUE

wait_returns(p) == procs[p].state = "exited"

\* lines 110-120: wait() returns, self.process = None, stop_requested tested
WaitReturn(r, k) ==
  /\ thr[r][k].pc = "wait"
  /\ wait_returns(thr[r][k].proc)
  /\ rec' = [rec EXCEPT ![r].process = None]
  /\ thr' = [thr EXCEPT ![r][k].pc = after_try(r), ![r][k].proc = None,
                        ![r][k].split = procs[thr[r][k].proc].split]
  /\ procs' = Reap(procs, rec', thr')
  /\ UNCHANGED <<now, failed, redundant_starts, idle_stops, Others>>

\* line 124: duration < 20
too_short(duration) == duration < MIN_DURATION

\* line 129: time.time() - error_start_time > 180
tolerance_exceeded_at(elapsed) == elapsed >= TOLERANCE

tolerance_exceeded(elapsed) == elapsed > TOLERANCE

\* line 137: error_start_time = None
window_kept(error_start_time) == error_start_time

window_after_long_run(error_start_time) == None

\* lines 122-139, up to the start of the sleep.  process_start_time is dead
\* after line 123 and is cleared here.
RestartPolicy(r, k) ==
  /\ thr[r][k].pc = "policy"
  /\ LET t == thr[r][k]
         duration == now - t.process_start_time
         opened == IF t.error_start_time = None THEN now
                   ELSE t.error_start_time
     IN IF too_short(duration)
        THEN IF tolerance_exceeded(now - opened)
             THEN /\ thr' = [thr EXCEPT ![r][k] =
                               [t EXCEPT !.pc = "finish",
                                         !.error_start_time = opened,
                                         !.process_start_time = None,
                                         !.split = FALSE]]
                  /\ failed' = [n \in Names |->
                                  failed[n] \/ (recorders[n] = r)]
             ELSE /\ thr' = [thr EXCEPT ![r][k] =
                               [t EXCEPT !.pc = "sleep",
                                         !.error_start_time = opened,
                                         !.process_start_time = None,
                                         !.wake = now + CRASH_DELAY,
                                         !.split = FALSE]]
                  /\ UNCHANGED failed
        ELSE /\ thr' = [thr EXCEPT ![r][k] =
                          [t EXCEPT !.pc = "sleep",
                                    !.error_start_time =
                                        window_after_long_run(t.error_start_time),
                                    !.process_start_time = None,
                                    !.wake = now + SPLIT_DELAY]]
             /\ UNCHANGED failed
  /\ UNCHANGED <<rec, procs, now, redundant_starts, idle_stops, Others>>

\* lines 134, 139: time.sleep returns, back to line 95
SleepDone(r, k) ==
  /\ thr[r][k].pc = "sleep"
  /\ now >= thr[r][k].wake
  /\ thr' = [thr EXCEPT ![r][k].pc = "test", ![r][k].wake = None]
  /\ UNCHANGED <<rec, procs, now, failed, redundant_starts, idle_stops, Others>>

\* lines 141-142: is_recording = False under the lock, the thread ends
Finish(r, k) ==
  /\ thr[r][k].pc = "finish"
  /\ rec' = [rec EXCEPT ![r].is_recording = FALSE]
  /\ thr' = [thr EXCEPT ![r][k] = NoThread]
  /\ redundant_starts' = [redundant_starts EXCEPT ![r] = 0]
  /\ UNCHANGED <<procs, now, failed, idle_stops, Others>>

\* ---- the capture process (streamlink) of line 104
\* it exits: the stream ended, it crashed, or it was terminated
ProcExit(p) ==
  /\ procs[p].state = "alive"
  /\ procs' = Reap([procs EXCEPT ![p].state = "exited"], rec, thr)
  /\ UNCHANGED <<rec, thr, now, failed, redundant_starts, idle_stops, Others>>

\* ---- Recorder._monitor_file_size, the monitor started for process p
\* line 144: current_process is the Popen object given at line 107
current_process_of_recorder(p) ==
  IF rec[procs[p].owner].process = None THEN procs[p].args.current_process
  ELSE rec[procs[p].owner].process

current_process(p) == procs[p].args.current_process

\* lines 146-148: stop requested or the process has exited
SizeMonitorQuit(p) ==
  /\ procs[p].watcher = "watching"
  /\ \/ rec[procs[p].owner].stop_requested
     \/ procs[current_process(p)].state = "exited"
  /\ procs' = Reap([procs EXCEPT ![p].watcher = "done"], rec, thr)
  /\ UNCHANGED <<rec, thr, now, failed, redundant_starts, idle_stops, Others>>

\* lines 150-155: the file has reached MAX_FILE_SIZE
SizeMonitorSplit(p) ==
  /\ procs[p].watcher = "watching"
  /\ ~rec[procs[p].owner].stop_requested
  /\ procs[current_process(p)].state = "alive"
  /\ procs' = [terminate(current_process(p)) EXCEPT
                 ![p].watcher = "done",
                 ![current_process(p)].split = TRUE]
  /\ UNCHANGED <<rec, thr, now, failed, redundant_starts, idle_stops, Others>>

\* ---- the clock
Tick(d, limit) ==
  /\ now + d <= limit
  /\ now' = now + d
  /\ UNCHANGED <<rec, thr, procs, failed, redundant_starts, idle_stops, Others>>

ManagerStep ==
  \E r \in RIds, k \in Slots :
    \/ LoopTest(r, k)
    \/ Spawn(r, k)
    \/ SpawnFail(r, k)
    \/ WaitReturn(r, k)
    \/ RestartPolicy(r, k)
    \/ SleepDone(r, k)
    \/ Finish(r, k)

ProcessStep ==
  \E p \in PIds :
    \/ ProcExit(p)
    \/ SizeMonitorQuit(p)
    \/ SizeMonitorSplit(p)

\* ---- callers of one Recorder: any thread may call start() and stop()
StartCall(r) ==
  /\ rec[r].created
  /\ start(r)
  /\ UNCHANGED <<now, failed, Others>>

StopCall(r) ==
  /\ rec[r].created
  /\ stop(r)
  /\ UNCHANGED <<now, failed, Others>>

\* a Recorder for channel "a", as built at line 175 from a one-channel file
InitRec ==
  /\ channels = <<[name |-> "a", is_recording |-> TRUE, online |-> FALSE]>>
  /\ recorders = [n \in Names |-> IF n = "a" THEN 1 ELSE None]
  /\ rec = [r \in RIds |-> IF r = 1 THEN Recorder("a") ELSE NoRecorder]
  /\ thr = [r \in RIds |-> [k \in Slots |-> NoThread]]
  /\ procs = [p \in PIds |-> NoProcess]
  /\ now = 0
  /\ mon = [pc |-> "copy", channels_copy |-> <<>>, online_status |-> {},
            i |-> 0, wake |-> None, known |-> {}]
  /\ data_lock = FALSE
  /\ failed = [n \in Names |-> FALSE]
  /\ decision = [n \in Names |-> "none"]
  /\ redundant_starts = [r \in RIds |-> 0]
  /\ idle_stops = [r \in RIds |-> 0]
  /\ exited = FALSE
  /\ pool = NoPool
  /\ NoLocks

\* One Recorder under arbitrary start() and stop() calls; the clock jumps
\* past the tolerance window.
NextRec ==
  \/ \E r \in RIds : StartCall(r)
  \/ \E r \in RIds : StopCall(r)
  \/ ManagerStep
  \/ ProcessStep
  \/ Tick(TOLERANCE + 1, MaxClock)

SpecRec == InitRec /\ [][NextRec]_vars

\* The same Recorder with its threads scheduled: a manager thread that can
\* take a step takes it, a size monitor whose loop test fails returns, and
\* time passes.  Nothing makes a capture process exit: streamlink may ignore
\* the signal of terminate().
SpecRecFair ==
  /\ SpecRec
  /\ WF_vars(ManagerStep)
  /\ WF_vars(\E p \in PIds : SizeMonitorQuit(p))
  /\ WF_vars(Tick(TOLERANCE + 1, MaxClock))

\* One Recorder that is started and not stopped, so that every exit of a
\* capture process reaches the restart policy; the clock advances in steps
\* that hit the thresholds of 20 s and 180 s exactly.
NextPolicy ==
  \/ \E r \in RIds : StartCall(r)
  \/ ManagerStep
  \/ ProcessStep
  \/ Tick(ShortStep, MaxTime)
  \/ Tick(LongStep, MaxTime)

SpecPolicy == InitRec /\ [][NextPolicy]_vars

\* ---- monitor_channels
ChannelNames == {channels[j].name : j \in 1..Len(channels)}
IndexOf(name) == Min({j \in 1..Len(channels) : channels[j].name = name})
MonIdle == [pc |-> "copy", channels_copy |-> <<>>, online_status |-> {},
            i |-> 0, wake |-> None, known |-> {}]

\* history: the Recorders of the dict when the list was copied
Known == {recorders[n] : n \in Names} \ {None}
Recs == <<rec, thr, procs, redundant_starts, idle_stops>>

\* lines 187-188: the channel list is copied under data_lock
MonCopyHolding ==
  /\ mon.pc = "copy"
  /\ ~data_lock
  /\ mon' = [mon EXCEPT !.pc = "probe", !.channels_copy = channels,
                        !.known = Known]
  /\ data_lock' = TRUE
  /\ UNCHANGED <<channels, recorders, Recs, now, exited, pool, Locks, failed, decision>>

MonCopy ==
  /\ mon.pc = "copy"
  /\ ~data_lock
  /\ mon' = [mon EXCEPT !.pc = "probe", !.channels_copy = channels,
                        !.known = Known]
  /\ UNCHANGED <<channels, recorders, Recs, now, exited, pool, Locks, data_lock, failed, decision>>

\* the names of channels_copy
Copied == {mon.channels_copy[j].name : j \in 1..Len(mon.channels_copy)}

\* lines 191-201: is_channel_online answers for every copied channel (the set
\* of names found online), then data_lock is taken.
MonProbe ==
  /\ mon.pc = "probe"
  /\ ~data_lock
  /\ \E online \in SUBSET Copied :
       mon' = [mon EXCEPT !.pc = "apply", !.online_status = online, !.i = 1]
  /\ data_lock' = TRUE
  /\ UNCHANGED <<channels, recorders, Recs, now, exited, pool, Locks, failed, decision>>

\* line 220 reached: the lock is released, time.sleep(CHECK_INTERVAL) begins
MonSleeping == [MonIdle EXCEPT !.pc = "sleep", !.wake = now + CHECK_INTERVAL]

\* line 208: ch.get('is_recording', False), ch being the entry of channels
desired_at_copy(ch) ==
  \E j \in 1..Len(mon.channels_copy) :
    /\ mon.channels_copy[j].name = ch.name
    /\ mon.channels_copy[j].is_recording

desired(ch) == ch.is_recording

\* lines 202-215: one channel of the loop; a channel without Recorder raises
\* AttributeError, which line 217 catches outside the loop
MonApply ==
  /\ mon.pc = "apply"
  /\ mon.i <= Len(channels)
  /\ LET ch == channels[mon.i]
         online == ch.name \in mon.online_status
         r == recorders[ch.name]
     IN /\ channels' = [channels EXCEPT ![mon.i].online = online]
        /\ IF r = None
           THEN /\ mon' = MonSleeping
                /\ data_lock' = FALSE
                /\ UNCHANGED <<Recs, decision>>
           ELSE /\ mon' = [mon EXCEPT !.i = @ + 1]
                /\ decision' = [decision EXCEPT ![ch.name] =
                                  IF desired(ch) /\ online
                                  THEN "run" ELSE "stop"]
                /\ IF desired(ch)
                   THEN IF online /\ ~rec[r].is_recording THEN start(r)
                        ELSE IF ~online /\ rec[r].is_recording THEN stop(r)
                        ELSE UNCHANGED Recs
                   ELSE IF rec[r].is_recording THEN stop(r)
                        ELSE UNCHANGED Recs
                /\ UNCHANGED data_lock
  /\ UNCHANGED <<recorders, now, exited, pool, Locks, failed>>

\* lines 216-220: save_channels, the lock is released, the sleep begins
MonSave ==
  /\ mon.pc = "apply"
  /\ mon.i > Len(channels)
  /\ mon' = MonSleeping
  /\ data_lock' = FALSE
  /\ UNCHANGED <<channels, recorders, Recs, now, exited, pool, Locks, failed, decision>>

\* line 220: time.sleep(CHECK_INTERVAL) returns
MonWake ==
  /\ mon.pc = "sleep"
  /\ now >= mon.wake
  /\ mon' = MonIdle
  /\ UNCHANGED <<channels, recorders, Recs, now, exited, pool, Locks, data_lock, failed, decision>>

\* ---- the actions of the index route, each under data_lock
FreeRecs == {r \in RIds : ~rec[r].created}

\* lines 244-253; saved = FALSE: save_channels raises at line 249
Add(name, saved) ==
  /\ ~data_lock
  /\ IF name \in ChannelNames
     THEN UNCHANGED <<channels, recorders, rec, decision>>
     ELSE /\ channels' = Append(channels, [name |-> name,
                                           is_recording |-> TRUE,
                                           online |-> FALSE])
          /\ decision' = [decision EXCEPT ![name] = "none"]
          /\ IF saved
             THEN /\ FreeRecs # {}
                  /\ recorders' = [recorders EXCEPT ![name] = Min(FreeRecs)]
                  /\ rec' = [rec EXCEPT ![Min(FreeRecs)] = Recorder(name)]
             ELSE UNCHANGED <<recorders, rec>>
  /\ UNCHANGED <<thr, procs, redundant_starts, idle_stops, now, exited, pool, Locks, mon, data_lock, failed>>

\* lines 256-267, 272
PauseDeferred(name) ==
  /\ ~data_lock
  /\ name \in ChannelNames
  /\ channels' = [channels EXCEPT ![IndexOf(name)].is_recording = FALSE]
  /\ decision' = [decision EXCEPT ![name] = "none"]
  /\ UNCHANGED <<recorders, Recs, now, exited, pool, Locks, mon, data_lock, failed>>

Pause(name) ==
  /\ ~data_lock
  /\ name \in ChannelNames
  /\ channels' = [channels EXCEPT ![IndexOf(name)].is_recording = FALSE]
  /\ LET r == recorders[name]
     IN IF r # None /\ rec[r].is_recording THEN stop(r) ELSE UNCHANGED Recs
  /\ decision' = [decision EXCEPT ![name] = "none"]
  /\ UNCHANGED <<recorders, now, exited, pool, Locks, mon, data_lock, failed>>

\* lines 256-262, 268-272
Resume(name) ==
  /\ ~data_lock
  /\ name \in ChannelNames
  /\ channels' = [channels EXCEPT ![IndexOf(name)].is_recording = TRUE]
  /\ decision' = [decision EXCEPT ![name] = "none"]
  /\ failed' = [failed EXCEPT ![name] = FALSE]
  /\ UNCHANGED <<recorders, Recs, now, exited, pool, Locks, mon, data_lock>>

\* lines 275-281
Remove(name) ==
  /\ ~data_lock
  /\ recorders[name] # None
  /\ stop(recorders[name])
  /\ recorders' = [recorders EXCEPT ![name] = None]
  /\ channels' = SelectSeq(channels, LAMBDA c : c.name # name)
  /\ decision' = [decision EXCEPT ![name] = "none"]
  /\ failed' = [failed EXCEPT ![name] = FALSE]
  /\ UNCHANGED <<now, exited, pool, Locks, mon, data_lock>>

\* lines 174-175: channels.json holds the channel "a"
Init ==
  /\ channels = <<[name |-> "a", is_recording |-> TRUE, online |-> FALSE]>>
  /\ recorders = [n \in Names |-> IF n = "a" THEN 1 ELSE None]
  /\ rec = [r \in RIds |-> IF r = 1 THEN Recorder("a") ELSE NoRecorder]
  /\ thr = [r \in RIds |-> [k \in Slots |-> NoThread]]
  /\ procs = [p \in PIds |-> NoProcess]
  /\ now = 0
  /\ mon = MonIdle
  /\ data_lock = FALSE
  /\ failed = [n \in Names |-> FALSE]
  /\ decision = [n \in Names |-> "none"]
  /\ redundant_starts = [r \in RIds |-> 0]
  /\ idle_stops = [r \in RIds |-> 0]
  /\ exited = FALSE
  /\ pool = NoPool
  /\ NoLocks

MonitorStep == MonCopy \/ MonProbe \/ MonApply \/ MonSave \/ MonWake

\* the requests of the operator, for the channel names N
ControlStep(N) ==
  \E name \in N :
    \/ \E saved \in BOOLEAN : Add(name, saved)
    \/ Pause(name)
    \/ Resume(name)
    \/ Remove(name)

\* The application with one channel name in use; the clock jumps past the
\* tolerance window.
Next ==
  \/ MonitorStep
  \/ ControlStep({"a"})
  \/ ManagerStep
  \/ ProcessStep
  \/ Tick(TOLERANCE + 1, MaxClock)

Spec == Init /\ [][Next]_vars

\* ---- signal_handler
\* lines 325-327: the Recorders of the dict that are recording
Recording == {r \in RIds : (\E n \in Names : recorders[n] = r)
                             /\ rec[r].is_recording}

\* lines 322-328: stop() on every recording Recorder, then sys.exit(0)
signal_handler ==
  /\ ~exited
  /\ rec' = [r \in RIds |->
               IF r \in Recording THEN [rec[r] EXCEPT !.stop_requested = TRUE]
               ELSE rec[r]]
  /\ procs' = [p \in PIds |->
                 IF \E r \in Recording : rec[r].process = p
                 THEN [procs[p] EXCEPT !.terminated =
                                         @ \/ procs[p].state = "alive"]
                 ELSE procs[p]]
  /\ exited' = TRUE
  /\ UNCHANGED <<channels, recorders, thr, now, mon, data_lock, failed,
                 decision, redundant_starts, idle_stops, pool, Locks>>

\* The application until a SIGINT or SIGTERM ends it.  The threads are
\* daemon threads and end with the program; the streamlink processes are
\* separate processes and stay until they exit.
NextDown ==
  \/ ~exited /\ MonitorStep
  \/ ~exited /\ ControlStep({"a"})
  \/ ~exited /\ ManagerStep
  \/ ~exited /\ \E p \in PIds : SizeMonitorQuit(p) \/ SizeMonitorSplit(p)
  \/ \E p \in PIds : ProcExit(p)
  \/ Tick(TOLERANCE + 1, MaxClock)
  \/ signal_handler

SpecDown == Init /\ [][NextDown]_vars

\* The application with two channel names, started without channels.json,
\* during its first second: no sleep has returned yet.
InitTwo ==
  /\ channels = <<>>
  /\ recorders = [n \in Names |-> None]
  /\ rec = [r \in RIds |-> NoRecorder]
  /\ thr = [r \in RIds |-> [k \in Slots |-> NoThread]]
  /\ procs = [p \in PIds |-> NoProcess]
  /\ now = 0
  /\ mon = MonIdle
  /\ data_lock = FALSE
  /\ failed = [n \in Names |-> FALSE]
  /\ decision = [n \in Names |-> "none"]
  /\ redundant_starts = [r \in RIds |-> 0]
  /\ idle_stops = [r \in RIds |-> 0]
  /\ exited = FALSE
  /\ pool = NoPool
  /\ NoLocks

NextTwo ==
  \/ MonCopy \/ MonProbe \/ MonApply \/ MonSave
  \/ ControlStep(Names)
  \/ \E r \in RIds, k \in Slots :
       \/ LoopTest(r, k)
       \/ Spawn(r, k)
       \/ SpawnFail(r, k)
       \/ WaitReturn(r, k)
       \/ RestartPolicy(r, k)
       \/ Finish(r, k)
  \/ ProcessStep

SpecTwo == InitTwo /\ [][NextTwo]_vars

\* ---- lines 191-198: the probes of one cycle, one future per copied channel
ChannelName(j) == "c" \o ToString(j)
Running == {j \in DOMAIN pool.item : pool.item[j] = "running"}
Queued == {j \in DOMAIN pool.item : pool.item[j] = "queued"}
Unsubmitted == {j \in DOMAIN pool.item : pool.item[j] = "new"}

\* ThreadPoolExecutor(max_workers=5): submit() starts a worker thread only
\* while fewer than max_workers exist
may_add_worker_always(n) == TRUE

may_add_worker(n) == n < MAX_WORKERS

\* line 194: executor.submit(is_channel_online, name) for the next channel of
\* the copy; the work item is queued, and a worker thread is started for it
\* or an existing worker is left to take it
ProbeSubmit ==
  /\ mon.pc = "probe"
  /\ Unsubmitted # {}
  /\ \E w \in {pool.workers, pool.workers + 1} :
       /\ w > pool.workers => may_add_worker(pool.workers)
       /\ w = pool.workers => pool.workers > 0
       /\ pool' = [pool EXCEPT !.item[Min(Unsubmitted)] = "queued",
                               !.workers = w]
  /\ UNCHANGED <<channels, recorders, Recs, now, mon, data_lock, failed,
                 decision, exited, Locks>>

\* a worker thread without work item takes the head of the queue and calls
\* is_channel_online (lines 52-61)
ProbeTake ==
  /\ mon.pc = "probe"
  /\ Queued # {}
  /\ Cardinality(Running) < pool.workers
  /\ pool' = [pool EXCEPT !.item[Min(Queued)] = "running",
                          !.calls[Min(Queued)] = @ + 1]
  /\ UNCHANGED <<channels, recorders, Recs, now, mon, data_lock, failed,
                 decision, exited, Locks>>

\* lines 59-61, 195-198: is_channel_online returns up (False on a timeout or
\* an error), as_completed yields the future, online_status[name] = up
ProbeReturn(j, up) ==
  /\ mon.pc = "probe"
  /\ j \in Running
  /\ pool' = [pool EXCEPT !.item[j] = "done"]
  /\ mon' = [mon EXCEPT !.online_status =
                IF up THEN @ \cup {mon.channels_copy[j].name} ELSE @]
  /\ UNCHANGED <<channels, recorders, Recs, now, data_lock, failed,
                 decision, exited, Locks>>

\* lines 195-201: every future has been yielded, the executor is shut down
\* and data_lock is taken
ProbeClose ==
  /\ mon.pc = "probe"
  /\ \A j \in DOMAIN pool.item : pool.item[j] = "done"
  /\ ~data_lock
  /\ mon' = [mon EXCEPT !.pc = "apply", !.i = 1]
  /\ data_lock' = TRUE
  /\ UNCHANGED <<channels, recorders, Recs, now, failed, decision, exited,
                 pool, Locks>>

\* The monitor thread at line 191 with a copy of up to MaxChannels channels.
\* The registry is not read before line 201: here the copied channels have
\* been removed since line 188.
InitProbe ==
  /\ channels = <<>>
  /\ recorders = [n \in Names |-> None]
  /\ rec = [r \in RIds |-> NoRecorder]
  /\ thr = [r \in RIds |-> [k \in Slots |-> NoThread]]
  /\ procs = [p \in PIds |-> NoProcess]
  /\ now = 0
  /\ \E n \in 0..MaxChannels :
       /\ mon = [MonIdle EXCEPT !.pc = "probe",
                                !.channels_copy =
                                    [j \in 1..n |->
                                       [name |-> ChannelName(j),
                                        is_recording |-> TRUE,
                                        online |-> FALSE]]]
       /\ pool = [item |-> [j \in 1..n |-> "new"],
                  calls |-> [j \in 1..n |-> 0], workers |-> 0]
  /\ data_lock = FALSE
  /\ failed = [n \in Names |-> FALSE]
  /\ decision = [n \in Names |-> "none"]
  /\ redundant_starts = [r \in RIds |-> 0]
  /\ idle_stops = [r \in RIds |-> 0]
  /\ exited = FALSE
  /\ NoLocks

NextProbe ==
  \/ ProbeSubmit
  \/ ProbeTake
  \/ \E j \in 1..MaxChannels, up \in BOOLEAN : ProbeReturn(j, up)
  \/ ProbeClose

SpecProbe == InitProbe /\ [][NextProbe]_vars

\* ---- the sections under data_lock and self.lock, one step per acquisition
\* A thread c that calls start() or stop() has call[c] set until the call
\* returns; it waits at `with self.lock` while another thread holds the lock.
Rest == <<channels, recorders, now, mon, data_lock, failed, decision, exited,
          pool>>

\* lines 82, 162: `with self.lock` is entered
CallAcquire(c) ==
  /\ call[c].op # "none"
  /\ lock[call[c].r] = "none"
  /\ lock' = [lock EXCEPT ![call[c].r] = c]
  /\ UNCHANGED <<Recs, Rest, call, web, sig>>

\* lines 83-89, 163-171: the body of start() or stop(), the lock is released
CallBody(c) ==
  /\ call[c].op # "none"
  /\ lock[call[c].r] = c
  /\ IF call[c].op = "start" THEN start(call[c].r) ELSE stop(call[c].r)
  /\ lock' = [lock EXCEPT ![call[c].r] = "none"]
  /\ call' = [call EXCEPT ![c] = NoCall]
  /\ UNCHANGED <<Rest, web, sig>>

\* line 141: the manager thread enters `with self.lock`
FinishAcquire(r, k) ==
  /\ thr[r][k].pc = "finish"
  /\ lock[r] = "none"
  /\ lock' = [lock EXCEPT ![r] = "mgr"]
  /\ thr' = [thr EXCEPT ![r][k].pc = "locked"]
  /\ UNCHANGED <<rec, procs, redundant_starts, idle_stops, Rest, call, web,
                 sig>>

\* line 142: is_recording = False, the lock is released, the thread ends
FinishLocked(r, k) ==
  /\ thr[r][k].pc = "locked"
  /\ rec' = [rec EXCEPT ![r].is_recording = FALSE]
  /\ thr' = [thr EXCEPT ![r][k] = NoThread]
  /\ redundant_starts' = [redundant_starts EXCEPT ![r] = 0]
  /\ lock' = [lock EXCEPT ![r] = "none"]
  /\ UNCHANGED <<procs, idle_stops, Rest, call, web, sig>>

\* lines 202-215: one channel of the loop, up to its call of start() or
\* stop(); rec.is_recording is read without self.lock
ApplyChannel ==
  /\ mon.pc = "apply"
  /\ mon.i <= Len(channels)
  /\ call["mon"] = NoCall
  /\ LET ch == channels[mon.i]
         online == ch.name \in mon.online_status
         r == recorders[ch.name]
     IN /\ channels' = [channels EXCEPT ![mon.i].online = online]
        /\ IF r = None
           THEN /\ mon' = MonSleeping
                /\ data_lock' = FALSE
                /\ UNCHANGED <<decision, call>>
           ELSE /\ mon' = [mon EXCEPT !.i = @ + 1]
                /\ decision' = [decision EXCEPT ![ch.name] =
                                  IF desired(ch) /\ online
                                  THEN "run" ELSE "stop"]
                /\ call' = [call EXCEPT !["mon"] =
                     IF desired(ch)
                     THEN IF online /\ ~rec[r].is_recording
                          THEN [op |-> "start", r |-> r]
                          ELSE IF ~online /\ rec[r].is_recording
                               THEN [op |-> "stop", r |-> r] ELSE NoCall
                     ELSE IF rec[r].is_recording
                          THEN [op |-> "stop", r |-> r] ELSE NoCall]
                /\ UNCHANGED data_lock
  /\ UNCHANGED <<recorders, Recs, now, failed, exited, pool, lock, web, sig>>

\* lines 216-220, after the last call of the loop has returned
ApplySave == call["mon"] = NoCall /\ MonSave

\* lines 256-266: pause takes data_lock, up to its call of stop()
PauseEnter(name) ==
  /\ web.pc = "idle"
  /\ ~data_lock
  /\ name \in ChannelNames
  /\ data_lock' = TRUE
  /\ channels' = [channels EXCEPT ![IndexOf(name)].is_recording = FALSE]
  /\ decision' = [decision EXCEPT ![name] = "none"]
  /\ LET r == recorders[name]
     IN call' = [call EXCEPT !["web"] =
                   IF r # None /\ rec[r].is_recording
                   THEN [op |-> "stop", r |-> r] ELSE NoCall]
  /\ web' = [web EXCEPT !.pc = "pause", !.name = name]
  /\ UNCHANGED <<recorders, Recs, now, mon, failed, exited, pool, lock, sig>>

\* lines 267-272: save_channels, data_lock is released
PauseLeave ==
  /\ web.pc = "pause"
  /\ call["web"] = NoCall
  /\ data_lock' = FALSE
  /\ web' = [web EXCEPT !.pc = "idle", !.name = ""]
  /\ UNCHANGED <<channels, recorders, Recs, now, mon, failed, decision,
                 exited, pool, lock, call, sig>>

\* lines 275-277: remove takes data_lock and calls stop()
RemoveEnter(name) ==
  /\ web.pc = "idle"
  /\ web.removes < MaxRemoves
  /\ recorders[name] # None
  /\ ~data_lock
  /\ data_lock' = TRUE
  /\ call' = [call EXCEPT !["web"] = [op |-> "stop", r |-> recorders[name]]]
  /\ web' = [web EXCEPT !.pc = "remove", !.name = name]
  /\ UNCHANGED <<channels, recorders, Recs, now, mon, failed, decision,
                 exited, pool, lock, sig>>

\* lines 278-281: the pair is deleted, data_lock is released
RemoveLeave ==
  /\ web.pc = "remove"
  /\ call["web"] = NoCall
  /\ recorders' = [recorders EXCEPT ![web.name] = None]
  /\ channels' = SelectSeq(channels, LAMBDA c : c.name # web.name)
  /\ decision' = [decision EXCEPT ![web.name] = "none"]
  /\ failed' = [failed EXCEPT ![web.name] = FALSE]
  /\ data_lock' = FALSE
  /\ web' = [web EXCEPT !.pc = "idle", !.name = "", !.removes = @ + 1]
  /\ UNCHANGED <<Recs, now, mon, exited, pool, lock, call, sig>>

\* lines 322-325: the signal arrives, list(recorders.items())
SigEnter ==
  /\ sig.pc = "idle"
  /\ sig' = [pc |-> "loop",
             todo |-> {recorders[n] : n \in Names} \ {None}]
  /\ UNCHANGED <<Recs, Rest, lock, call, web>>

\* lines 325-327: the next Recorder of the list, up to its call of stop()
SigNext ==
  /\ sig.pc = "loop"
  /\ sig.todo # {}
  /\ call["sig"] = NoCall
  /\ LET r == Min(sig.todo)
     IN /\ sig' = [sig EXCEPT !.todo = @ \ {r}]
        /\ call' = [call EXCEPT !["sig"] =
                      IF rec[r].is_recording
                      THEN [op |-> "stop", r |-> r] ELSE NoCall]
  /\ UNCHANGED <<Recs, Rest, lock, web>>

\* line 328: sys.exit(0)
SigExit ==
  /\ sig.pc = "loop"
  /\ sig.todo = {}
  /\ call["sig"] = NoCall
  /\ sig' = [sig EXCEPT !.pc = "done"]
  /\ exited' = TRUE
  /\ UNCHANGED <<channels, recorders, Recs, now, mon, data_lock, failed,
                 decision, pool, lock, call, web>>

\* a step of a thread that is inside `with data_lock` or `with self.lock`,
\* or at the `with self.lock` of its call
LockedStep ==
  \/ \E c \in Callers : CallAcquire(c) \/ CallBody(c)
  \/ \E r \in RIds, k \in Slots : FinishAcquire(r, k) \/ FinishLocked(r, k)
  \/ ApplyChannel
  \/ ApplySave
  \/ PauseLeave
  \/ RemoveLeave

\* The application at the start of the monitor's second cycle: the first
\* cycle found channel "a" online and called start(), and the manager thread
\* has not run yet.
InitRunning ==
  /\ channels = <<[name |-> "a", is_recording |-> TRUE, online |-> TRUE]>>
  /\ recorders = [n \in Names |-> IF n = "a" THEN 1 ELSE None]
  /\ rec = [r \in RIds |->
              IF r = 1 THEN [Recorder("a") EXCEPT !.is_recording = TRUE]
              ELSE NoRecorder]
  /\ thr = [r \in RIds |-> [k \in Slots |->
              IF r = 1 /\ k = 1 THEN [NoThread EXCEPT !.pc = "test"]
              ELSE NoThread]]
  /\ procs = [p \in PIds |-> NoProcess]
  /\ now = CHECK_INTERVAL
  /\ mon = MonIdle
  /\ data_lock = FALSE
  /\ failed = [n \in Names |-> FALSE]
  /\ decision = [n \in Names |-> IF n = "a" THEN "run" ELSE "none"]
  /\ redundant_starts = [r \in RIds |-> 0]
  /\ idle_stops = [r \in RIds |-> 0]
  /\ exited = FALSE
  /\ pool = NoPool
  /\ NoLocks

\* One cycle of the monitor, from the start of the program or from the
\* start of its second cycle, with every `with` of a lock as a step of its
\* own, until a signal ends the program.  No sleep returns, and at most
\* MaxRemoves remove requests are made.
NextLocks ==
  \/ ~exited /\ LockedStep
  \/ ~exited /\ (MonCopy \/ MonProbe)
  \/ ~exited /\ web.pc = "idle" /\ \E saved \in BOOLEAN : Add("a", saved)
  \/ ~exited /\ web.pc = "idle" /\ Resume("a")
  \/ ~exited /\ (PauseEnter("a") \/ RemoveEnter("a"))
  \/ ~exited /\ \E r \in RIds, k \in Slots :
                   \/ LoopTest(r, k)
                   \/ Spawn(r, k)
                   \/ SpawnFail(r, k)
                   \/ WaitReturn(r, k)
                   \/ RestartPolicy(r, k)
  \/ ~exited /\ \E p \in PIds : SizeMonitorQuit(p) \/ SizeMonitorSplit(p)
  \/ ~exited /\ (SigEnter \/ SigNext \/ SigExit)
  \/ \E p \in PIds : ProcExit(p)

SpecLocks == (Init \/ InitRunning) /\ [][NextLocks]_vars

\* ======================================================================
\* Properties

C2_StopReachesProcess ==
  \A r \in RIds :
    (rec[r].is_recording /\ rec[r].stop_requested)
      => \A p \in AliveProcs(r) : procs[p].terminated

\* C3 (as claimed): after the manager of a channel's Recorder has stopped
\* on the 180 s tolerance, and until resume (or remove) of that channel, no
\* capture process of that Recorder is alive.
C3_NoRestartAfterTolerance ==
  \A n \in Names :
    (failed[n] /\ recorders[n] # None) => AliveProcs(recorders[n]) = {}

\* C4: the restart policy of lines 122-139.  At an exit without stop
\* request, a lifetime below 20 s opens the failure window if it is closed
\* and keeps it otherwise; the manager ends exactly when more than 180 s
\* have passed since the window opened, and otherwise sleeps 5 s before the
\* restart; a lifetime of 20 s or more closes the window and the manager
\* sleeps 1 s before the restart.
C4_RestartTolerance ==
  [][\A r \in RIds, k \in Slots :
       (thr[r][k].pc = "policy" /\ thr'[r][k].pc # "policy") =>
         LET t == thr[r][k]
             u == thr'[r][k]
             lifetime == now - t.process_start_time
         IN /\ (lifetime < MIN_DURATION) =>
                 /\ u.error_start_time =
                      (IF t.error_start_time = None THEN now
                       ELSE t.error_start_time)
                 /\ (u.pc = "finish") <=> (now - u.error_start_time > TOLERANCE)
                 /\ (u.pc # "finish") =>
                      (u.pc = "sleep" /\ u.wake = now + CRASH_DELAY)
            /\ (lifetime >= MIN_DURATION) =>
                 /\ u.error_start_time = None
                 /\ u.pc = "sleep" /\ u.wake = now + SPLIT_DELAY
    ]_vars

\* C4 witness: the manager has ended on the tolerance, at a short exit more
\* than 180 s after the failure window was opened by an earlier short exit.
C4_Witness ==
  /\ thr[1][1].pc = "finish"
  /\ ~rec[1].stop_requested
  /\ thr[1][1].error_start_time # None
  /\ now - thr[1][1].error_start_time > TOLERANCE
  /\ failed["a"]

\* C5 (as claimed): a Recorder that remove has deleted from recorders is
\* not recording and has no live capture process.
C5_RemoveAfterStop ==
  \A r \in RIds :
    (rec[r].created /\ \A n \in Names : recorders[n] # r)
      => (~rec[r].is_recording /\ AliveProcs(r) = {})

\* C6 (as claimed): after a cycle has found a channel paused or offline,
\* and until the next decision about it, every live capture process of its
\* Recorder has been sent terminate(), so that none remains once the
\* terminated process has exited.
C6_StoppedWithinInterval ==
  \A n \in Names :
    (decision[n] = "stop" /\ recorders[n] # None)
      => \A p \in AliveProcs(recorders[n]) : procs[p].terminated

\* C7 (as claimed): when the apply phase of a cycle handles a channel that
\* is active and found online, its Recorder is recording afterwards with no
\* stop requested, so that its manager runs a capture process.
C7_StartedWithinInterval ==
  [][\A n \in Names :
       (/\ mon.pc = "apply" /\ mon'.pc = "apply" /\ mon'.i = mon.i + 1
        /\ channels[mon.i].name = n
        /\ decision'[n] = "run")
         => /\ rec'[recorders[n]].is_recording
            /\ ~rec'[recorders[n]].stop_requested
    ]_vars

\* C8: however many start() calls are made while the Recorder is recording,
\* it has exactly one manager thread and at most one live capture process.
C8_StartIdempotent ==
  \A r \in RIds :
    /\ Cardinality(LiveThreads(r)) <= 1
    /\ rec[r].is_recording <=> LiveThreads(r) # {}
    /\ redundant_starts[r] > 0 =>
         (Cardinality(LiveThreads(r)) = 1 /\ Cardinality(AliveProcs(r)) <= 1)

\* C8 witness: two start() calls were made on a recording Recorder whose
\* capture process is alive.
C8_Witness ==
  \E r \in RIds :
    /\ redundant_starts[r] >= 2
    /\ rec[r].is_recording
    /\ AliveProcs(r) # {}

\* C9 (as claimed): the apply phase of a cycle ends only after the last
\* channel of the list: an error on one channel leaves no later channel
\* without its online update and its start/stop decision.
C9_CycleCoversAllChannels ==
  [][(mon.pc = "apply" /\ mon'.pc = "sleep") => mon.i >= Len(channels)]_vars

\* C10 (as claimed): the path handed to a newly spawned capture process
\* differs from the path of the previous capture process of that Recorder.
C10_FreshArtifact ==
  [][\A r \in RIds :
       (\E k \in Slots : thr[r][k].pc = "spawn" /\ thr'[r][k].pc = "wait")
         => rec'[r].artifact # rec[r].artifact
    ]_vars

\* C11 (as claimed): a capture process that stop() has sent terminate() and
\* that does not exit is killed after a grace period: with stop requested,
\* a terminated process that is still alive is eventually not alive, whatever
\* the process does with the signal.
C11_KilledAfterGrace ==
  \A p \in PIds :
    (/\ procs[p].state = "alive"
     /\ procs[p].terminated
     /\ rec[procs[p].owner].stop_requested)
      ~> (procs[p].state # "alive")

\* C12 (as claimed): the program ends on a signal only once every Recorder
\* is idle or its grace period has passed.  signal_handler calls stop() and
\* sys.exit(0) without waiting, so no grace period can have passed between
\* them: at the step that ends the program no Recorder of the dict is
\* recording.
C12_ShutdownWaits ==
  [][(~exited /\ exited') =>
       \A n \in Names :
         recorders[n] # None => ~rec'[recorders[n]].is_recording
    ]_vars

\* C13: during the probes of a cycle at most 5 calls of is_channel_online
\* are in progress and at most 5 worker threads exist, however many channels
\* were copied; no channel is probed twice, and when every future is done
\* each copied channel has been probed exactly once.
C13_ProbeCap ==
  /\ Cardinality(Running) <= MAX_WORKERS
  /\ pool.workers <= MAX_WORKERS
  /\ \A j \in DOMAIN pool.calls : pool.calls[j] <= 1
  /\ (\A j \in DOMAIN pool.item : pool.item[j] = "done")
       => \A j \in DOMAIN pool.calls : pool.calls[j] = 1

\* C13 witness: more channels were copied than the cap; 5 probes are in
\* progress while a submitted channel waits in the queue.
C13_Witness ==
  /\ Cardinality(Running) = MAX_WORKERS
  /\ Queued # {}
  /\ Len(mon.channels_copy) > MAX_WORKERS

\* C14: pause sets is_recording of the channel to False and calls stop() on
\* its Recorder in the same section under data_lock: in no state is a
\* channel paused while its Recorder is recording without a stop request.
C14_PauseStops ==
  \A j \in 1..Len(channels) :
    LET r == recorders[channels[j].name]
    IN (~channels[j].is_recording /\ r # None /\ rec[r].is_recording)
         => rec[r].stop_requested

\* C14 witness: the channel is paused, its Recorder is still recording with
\* the stop requested, and its live capture process has been terminated.
C14_Witness ==
  \E j \in 1..Len(channels) :
    LET r == recorders[channels[j].name]
    IN /\ ~channels[j].is_recording
       /\ r # None
       /\ rec[r].is_recording /\ rec[r].stop_requested
       /\ rec[r].process # None
       /\ procs[rec[r].process].state = "alive"
       /\ procs[rec[r].process].terminated
       /\ mon.pc = "sleep"

\* C15: a capture process that its size monitor terminated after it had
\* run for 20 s or more is a split: the restart policy closes the failure
\* window and sleeps 1 s (it does not end the manager), and the process
\* spawned next has a new path and finds the window closed.
C15_SplitIsNoFailure ==
  [][\A r \in RIds, k \in Slots :
       LET t == thr[r][k]
           u == thr'[r][k]
       IN /\ (/\ t.pc = "policy" /\ u.pc # "policy" /\ t.split
               /\ now - t.process_start_time >= MIN_DURATION)
                => /\ u.error_start_time = None
                   /\ u.pc = "sleep" /\ u.wake = now + SPLIT_DELAY
                   /\ u.split
          /\ (t.pc = "spawn" /\ u.pc = "wait" /\ t.split)
                => /\ rec'[r].artifact # rec[r].artifact
                   /\ procs'[u.proc].path = rec'[r].artifact
                   /\ u.error_start_time = None
    ]_vars

\* C15 witness: a process that ran 20 s or more was terminated by its size
\* monitor, and the manager now waits for the next process, spawned on
\* another path more than 20 s later, with the failure window closed.
C15_Witness ==
  \E q \in PIds :
    /\ thr[1][1].pc = "wait" /\ thr[1][1].proc = q
    /\ thr[1][1].split
    /\ thr[1][1].error_start_time = None
    /\ procs[q].state = "alive" /\ procs[q].owner = 1
    /\ procs[q].path = rec[1].artifact
    /\ procs[q].path[2] > MIN_DURATION

\* C16 (as claimed): no step leaves two channels of the same name in the
\* list, and a step that adds a channel adds one record, of a name that was
\* absent, with is_recording True and online False, together with one new
\* idle Recorder for it in recorders.
C16_AddCreatesPair ==
  [][/\ \A i, j \in 1..Len(channels') :
          channels'[i].name = channels'[j].name => i = j
     /\ Len(channels') > Len(channels) =>
          LET ch == channels'[Len(channels')]
          IN /\ channels' = Append(channels, ch)
             /\ ch.name \notin ChannelNames
             /\ ch.is_recording /\ ~ch.online
             /\ recorders'[ch.name] # None
             /\ ~rec[recorders'[ch.name]].created
             /\ rec'[recorders'[ch.name]] = Recorder(ch.name)
    ]_vars

\* C17: a stop() call on a Recorder that is not recording returns at line
\* 164 and changes nothing: is_recording, stop_requested, the process
\* handle and every other field keep their values, no thread is created
\* and no process is sent terminate().
C17_StopIdempotent ==
  [][\A r \in RIds :
       idle_stops'[r] > idle_stops[r]
         => /\ ~rec[r].is_recording
            /\ rec' = rec
            /\ thr' = thr
            /\ procs' = procs
    ]_vars

\* C17 witness: stop() was called twice on a Recorder that had been started
\* and is idle again; it is idle with no stop requested.
C17_Witness ==
  /\ idle_stops[1] >= 2
  /\ ~rec[1].is_recording
  /\ ~rec[1].stop_requested
  /\ rec[1].artifact # NoPath

\* C18: a size monitor holds the Popen object and the path of the process
\* it was started for.  The process that a size monitor terminates is its
\* own process, alive until then, and the monitor returns with that step;
\* a size monitor whose process has exited returns without terminating any
\* process.
C18_WatcherBound ==
  [][\A p \in PIds :
       /\ procs[p].watcher = "watching"
            => /\ procs[p].args.current_process = p
               /\ procs[p].args.path = procs[p].path
       /\ (procs'[p].split /\ ~procs[p].split)
            => /\ procs[p].state = "alive"
               /\ procs[p].watcher = "watching"
               /\ procs'[p].watcher = "done"
               /\ \A q \in PIds \ {p} : procs'[q] = procs[q]
       /\ (/\ procs[p].watcher = "watching"
           /\ procs[p].state = "exited"
           /\ procs'[p].watcher # "watching")
            => \A q \in PIds \ {p} : procs'[q] = procs[q]
    ]_vars

\* C18 witness: the size monitor of the current process has terminated it
\* while the size monitor of an earlier process of the same Recorder, which
\* has exited, has not returned yet.
C18_Witness ==
  \E p \in PIds, q \in PIds :
    /\ p # q
    /\ procs[p].owner = procs[q].owner
    /\ procs[p].state = "alive" /\ procs[p].split
    /\ procs[p].watcher = "done"
    /\ procs[q].state = "exited" /\ procs[q].watcher = "watching"

\* C19: data_lock is held only by the monitor thread in its apply phase or
\* by a request thread inside its action, never by a thread that probes,
\* spawns or waits for a process; a thread that holds a Recorder's lock is
\* inside start(), stop() or the last two lines of the manager and waits
\* for no lock; so the holder of a Recorder's lock can always release it,
\* and the holder of data_lock can always take a step or waits for a
\* Recorder's lock: no state is a deadlock.
C19_NoDeadlock ==
  exited \/
  /\ data_lock <=> (mon.pc = "apply" \/ web.pc # "idle")
  /\ ~(mon.pc = "apply" /\ web.pc # "idle")
  /\ call["mon"] # NoCall => mon.pc = "apply"
  /\ call["web"] # NoCall => web.pc # "idle"
  /\ \A r \in RIds :
       /\ lock[r] \in Callers =>
            (call[lock[r]].r = r /\ ENABLED CallBody(lock[r]))
       /\ lock[r] = "mgr" => \E k \in Slots : ENABLED FinishLocked(r, k)
       /\ lock[r] \in {"mon", "web"} => data_lock
  /\ data_lock =>
       \/ ENABLED (ApplyChannel \/ ApplySave \/ PauseLeave \/ RemoveLeave)
       \/ \E c \in {"mon", "web"} :
            /\ call[c] # NoCall
            /\ ENABLED (CallAcquire(c) \/ CallBody(c))
                 \/ lock[call[c].r] \in {"mgr", "sig"}

\* C19 witness: the monitor thread holds data_lock and waits for the lock
\* of a Recorder that its manager thread holds, while signal_handler waits
\* for the same lock.
C19_Witness ==
  /\ ~exited
  /\ mon.pc = "apply"
  /\ call["mon"] # NoCall
  /\ lock[call["mon"].r] = "mgr"
  /\ call["sig"] # NoCall
  /\ call["sig"].r = call["mon"].r

\* C20 (as claimed): the apply phase calls start() on a Recorder only if its
\* channel has is_recording True at that moment and the probe of this cycle
\* found it online, and it calls start() then unless the Recorder is
\* recording; a channel added after the list was copied is set offline and
\* not started in this cycle.
C20_AddedIsUnavailable ==
  [][(mon.pc = "apply" /\ mon'.pc = "apply" /\ mon'.i = mon.i + 1) =>
       LET ch == channels[mon.i]
           r == recorders[ch.name]
           started == rec'[r].is_recording /\ ~rec[r].is_recording
       IN /\ started <=> (/\ ch.is_recording
                           /\ ch.name \in mon.online_status
                           /\ ~rec[r].is_recording)
          /\ r \notin mon.known => (~channels'[mon.i].online /\ ~started)
    ]_vars

\* C20 (amended): as above, for a channel whose name was not in the copied
\* list; a channel removed and added again under its name after the copy
\* gets the probe result of that name.
C20_ApplyUsesCurrent ==
  [][(mon.pc = "apply" /\ mon'.pc = "apply" /\ mon'.i = mon.i + 1) =>
       LET ch == channels[mon.i]
           r == recorders[ch.name]
           started == rec'[r].is_recording /\ ~rec[r].is_recording
       IN /\ started <=> (/\ ch.is_recording
                           /\ ch.name \in mon.online_status
                           /\ ~rec[r].is_recording)
          /\ ch.name \notin Copied => (~channels'[mon.i].online /\ ~started)
    ]_vars

\* C20 witness: the apply phase has handled a channel that was copied with
\* is_recording True, found online by the probe and paused before the apply
\* phase: it is marked online and its Recorder was not started.
C20_Witness ==
  /\ mon.pc = "apply" /\ mon.i = 2 /\ Len(channels) = 1
  /\ Len(mon.channels_copy) = 1
  /\ mon.channels_copy[1].name = channels[1].name
  /\ mon.channels_copy[1].is_recording
  /\ ~channels[1].is_recording
  /\ channels[1].name \in mon.online_status /\ channels[1].online
  /\ recorders[channels[1].name] \in mon.known
  /\ ~rec[recorders[channels[1].name]].is_recording

====
